---- MODULE Spec2Model ----
(***************************************************************************)
(* The Redis adapter of gcache (adapter/adapter_redis.go) as a state       *)
(* machine.  The state is the remote store the adapter talks to (the       *)
(* adapter itself keeps nothing but the client handle) and the record of   *)
(* the call a single sequential caller has made and not yet consumed.      *)
(*                                                                         *)
(* Time is counted in clock ticks; Second ticks make one second.  A        *)
(* time.Duration argument is a number of ticks, so a duration of 1 tick is *)
(* shorter than a second.  Keys and values are both strings of the remote  *)
(* store (the client stringifies every argument), so they share one name   *)
(* space, Str; Nil is Go's nil / the store's nil reply.                    *)
(***************************************************************************)
EXTENDS Integers, Sequences, FiniteSets, TLC

\* Number of distinct strings used as keys and as values.
MaxStr == 2

\* Largest duration argument, in whole seconds.
MaxSecs == 2

\* The most keys given to one Remove.
MaxRemove == 2

\* time.Second, in clock ticks.
Second == 3

\* Go's nil value, and the store's nil reply.
Nil == 0

Str == 1..MaxStr

\* Duration arguments: negative, zero, shorter than one second, one second,
\* a second and a fraction, and the largest whole number of seconds.
Durations == {-1, 0, 1, Second, Second + 1, MaxSecs * Second}

VARIABLES
    store,      \* the remote store: key -> [val, rem]
    call,       \* the call in hand: operation and arguments ("none": idle)
    pre,        \* the store as it was when the call in hand was made
    ret,        \* what the call in hand returned
    elapsed,    \* ticks slept since the call in hand returned
    procs       \* concurrent callers: the call each is in and its position

vars == <<store, call, pre, ret, elapsed, procs>>

(***************************************************************************)
(* The remote store.  An entry holds the value and the remaining time to   *)
(* live in ticks; rem = -1 is a key without expiry and rem = -2 an absent  *)
(* key, as in the replies of TTL.                                          *)
(***************************************************************************)
Absent == [val |-> Nil, rem |-> -2]

Exists(s, k) == s[k].rem # -2

EmptyStore == [k \in Str |-> Absent]

\* The empty string, which is what the client sends for a nil argument.
Empty == -1

\* A value as the client sends it.
Arg(v) == IF v = Nil THEN Empty ELSE v

\* One tick passes: every expiring key loses a tick, and is gone at zero.
Age(s) ==
    [k \in Str |->
        IF s[k].rem > 1 THEN [s[k] EXCEPT !.rem = @ - 1]
        ELSE IF s[k].rem = 1 THEN Absent
        ELSE s[k]]

\* A remote command's outcome: the store after it, its reply, whether it
\* was answered with an error, and its name.
Outcome(s, reply, err, name) ==
    [store |-> s, reply |-> reply, err |-> err, name |-> name]

\* DEL k1 k2 ...: removes the named keys, replies how many existed.  A nil
\* argument names no string of Str.
RedisDEL(s, ks) ==
    Outcome([k \in Str |-> IF k \in ks THEN Absent ELSE s[k]],
            Cardinality({k \in ks \cap Str : Exists(s, k)}), FALSE, "DEL")

\* MSET k1 v1 k2 v2 ...: writes every value as sent, without expiry.
RedisMSET(s, data) ==
    Outcome([k \in Str |-> IF k \in DOMAIN data
                           THEN [val |-> Arg(data[k]), rem |-> -1]
                           ELSE s[k]],
            Nil, FALSE, "MSET")

\* SET k v: writes the value without expiry.
RedisSET(s, k, v) ==
    Outcome([s EXCEPT ![k] = [val |-> v, rem |-> -1]], Nil, FALSE, "SET")

\* SETEX k secs v: writes the value expiring after secs seconds; an expire
\* time that is not positive is answered with an error and writes nothing.
RedisSETEX(s, k, secs, v) ==
    IF secs <= 0
    THEN Outcome(s, Nil, TRUE, "SETEX")
    ELSE Outcome([s EXCEPT ![k] = [val |-> v, rem |-> secs * Second]],
                 Nil, FALSE, "SETEX")

\* SETNX k v: writes the value without expiry if the key is absent; replies
\* 1 if it wrote and 0 if not.
RedisSETNX(s, k, v) ==
    IF Exists(s, k)
    THEN Outcome(s, 0, FALSE, "SETNX")
    ELSE Outcome([s EXCEPT ![k] = [val |-> v, rem |-> -1]], 1, FALSE, "SETNX")

\* EXPIRE k secs: replies 0 for an absent key; otherwise sets the time to
\* live and replies 1, a time that is not positive deleting the key.
RedisEXPIRE(s, k, secs) ==
    IF ~Exists(s, k) THEN Outcome(s, 0, FALSE, "EXPIRE")
    ELSE IF secs <= 0
    THEN Outcome([s EXCEPT ![k] = Absent], 1, FALSE, "EXPIRE")
    ELSE Outcome([s EXCEPT ![k].rem = secs * Second], 1, FALSE, "EXPIRE")

\* TTL k: -2 for an absent key, -1 for a key without expiry, otherwise the
\* remaining time rounded to the nearest second.
RedisTTL(s, k) ==
    Outcome(s,
            IF s[k].rem < 0 THEN s[k].rem
            ELSE (2 * s[k].rem + Second) \div (2 * Second),
            FALSE, "TTL")

\* GET k: the value, nil for an absent key.
RedisGET(s, k) == Outcome(s, s[k].val, FALSE, "GET")

\* EXISTS k: 1 if the key exists, 0 if not.
RedisEXISTS(s, k) == Outcome(s, IF Exists(s, k) THEN 1 ELSE 0, FALSE, "EXISTS")

\* KEYS *: the existing keys, in the order the server lists them.
RedisKEYS(s, order) == Outcome(s, order, FALSE, "KEYS")

\* MGET k1 k2 ...: the value of each named key, nil for an absent one.  The
\* server rejects an MGET that names no key.
RedisMGET(s, keys) ==
    IF keys = <<>>
    THEN Outcome(s, <<>>, TRUE, "MGET")
    ELSE Outcome(s, [i \in 1..Len(keys) |-> s[keys[i]].val], FALSE, "MGET")

\* FLUSHDB: removes every key.
RedisFLUSHDB(s) == Outcome([k \in Str |-> Absent], Nil, FALSE, "FLUSHDB")

\* DBSIZE: the number of keys.
RedisDBSIZE(s) ==
    Outcome(s, Cardinality({k \in Str : Exists(s, k)}), FALSE, "DBSIZE")

\* The client's DoVar/Do: a remote call that fails (no connection, timeout)
\* has no effect on the store and yields an error.
Do(s, out, failed) ==
    IF failed THEN Outcome(s, Nil, TRUE, out.name) ELSE out

\* What an operation hands back: the store after it and its results.
Result(s, val, ok, dur, err, cmds) ==
    [store |-> s, val |-> val, ok |-> ok, dur |-> dur, err |-> err, cmds |-> cmds,
     list |-> <<>>]

\* What Keys, Values and Data hand back: a slice, or a map.
ResultList(s, list, cmds) ==
    [Result(s, Nil, FALSE, 0, FALSE, cmds) EXCEPT !.list = list]


(***************************************************************************)
(* The adapter's operations, as functions of the store s, the arguments    *)
(* and fail: the number of the remote command of this call that fails      *)
(* (0: none does).                                                         *)
(***************************************************************************)

\* Set as it would be with the delete test written duration <= 0.
SetZeroDeletes(s, key, value, duration, fail) ==
    LET r == IF value = Nil \/ duration <= 0
             THEN Do(s, RedisDEL(s, {key}), fail = 1)
             ELSE Do(s, RedisSETEX(s, key, duration \div Second, value), fail = 1)
    IN  Result(r.store, Nil, FALSE, 0, r.err, <<r.name>>)

\* Set as it would be with the delete test written with && for ||.
SetDeleteNeedsBoth(s, key, value, duration, fail) ==
    LET r == IF value = Nil /\ duration < 0
             THEN Do(s, RedisDEL(s, {key}), fail = 1)
             ELSE IF duration = 0
             THEN Do(s, RedisSET(s, key, value), fail = 1)
             ELSE Do(s, RedisSETEX(s, key, duration \div Second, value), fail = 1)
    IN  Result(r.store, Nil, FALSE, 0, r.err, <<r.name>>)

\* Redis.Set
Set(s, key, value, duration, fail) ==
    LET r == IF value = Nil \/ duration < 0
             THEN Do(s, RedisDEL(s, {key}), fail = 1)
             ELSE IF duration = 0
             THEN Do(s, RedisSET(s, key, value), fail = 1)
             ELSE Do(s, RedisSETEX(s, key, duration \div Second, value), fail = 1)
    IN  Result(r.store, Nil, FALSE, 0, r.err, <<r.name>>)

\* Get as it would be reading with a command that removes the key it reads.
GetRemoves(s, key, fail) ==
    LET r == Do(s, RedisGET(s, key), fail = 1)
        d == RedisDEL(s, {key})
    IN  IF r.err
        THEN Result(s, Nil, FALSE, 0, TRUE, <<"GET">>)
        ELSE Result(d.store, r.reply, FALSE, 0, FALSE, <<"GET">>)

\* Redis.Get
Get(s, key, fail) ==
    LET r == Do(s, RedisGET(s, key), fail = 1)
    IN  IF r.err
        THEN Result(s, Nil, FALSE, 0, TRUE, <<"GET">>)
        ELSE Result(s, r.reply, FALSE, 0, FALSE, <<"GET">>)

\* GetExpire as it would be without the test for the absent key.
GetExpireNoAbsenceTest(s, key, fail) ==
    LET r == Do(s, RedisTTL(s, key), fail = 1)
    IN  IF r.err THEN Result(s, Nil, FALSE, 0, TRUE, <<"TTL">>)
        ELSE IF r.reply = -1 THEN Result(s, Nil, FALSE, 0, FALSE, <<"TTL">>)
        ELSE Result(s, Nil, FALSE, r.reply * Second, FALSE, <<"TTL">>)

\* Redis.GetExpire
GetExpire(s, key, fail) ==
    LET r == Do(s, RedisTTL(s, key), fail = 1)
    IN  IF r.err THEN Result(s, Nil, FALSE, 0, TRUE, <<"TTL">>)
        ELSE IF r.reply = -1 THEN Result(s, Nil, FALSE, 0, FALSE, <<"TTL">>)
        ELSE IF r.reply = -2 THEN Result(s, Nil, FALSE, -1, FALSE, <<"TTL">>)
        ELSE Result(s, Nil, FALSE, r.reply * Second, FALSE, <<"TTL">>)

\* Redis.Contains
Contains(s, key, fail) ==
    LET r == Do(s, RedisEXISTS(s, key), fail = 1)
    IN  IF r.err THEN Result(s, Nil, FALSE, 0, TRUE, <<"EXISTS">>)
        ELSE Result(s, Nil, r.reply # 0, 0, FALSE, <<"EXISTS">>)

\* Redis.Size
Size(s, fail) ==
    LET r == Do(s, RedisDBSIZE(s), fail = 1)
    IN  IF r.err
        THEN Result(s, 0, FALSE, 0, TRUE, <<"DBSIZE">>)
        ELSE Result(s, r.reply, FALSE, 0, FALSE, <<"DBSIZE">>)

\* Redis.Close: it does nothing.
Close(s) == Result(s, Nil, FALSE, 0, FALSE, <<>>)

\* Update as it would be without the test for the absent key.
UpdateNoAbsenceTest(s, key, value, fail) ==
    LET t == Do(s, RedisTTL(s, key), fail = 1)
        g == Do(s, RedisGET(s, key), fail = 2)
        d == Do(s, RedisDEL(s, {key}), fail = 3)
        w == IF t.reply = -1
             THEN Do(s, RedisSET(s, key, value), fail = 3)
             ELSE Do(s, RedisSETEX(s, key, t.reply, value), fail = 3)
    IN  IF t.err THEN Result(s, Nil, FALSE, 0, TRUE, <<"TTL">>)
        ELSE IF g.err THEN Result(s, Nil, FALSE, 0, TRUE, <<"TTL", "GET">>)
        ELSE IF value = Nil
        THEN Result(d.store, g.reply, FALSE, 0, d.err, <<"TTL", "GET", "DEL">>)
        ELSE Result(w.store, g.reply, TRUE, 0, w.err, <<"TTL", "GET", w.name>>)

\* Update as it would be going on after a failed GET.
UpdateIgnoresGetError(s, key, value, fail) ==
    LET t == Do(s, RedisTTL(s, key), fail = 1)
        g == Do(s, RedisGET(s, key), fail = 2)
        d == Do(s, RedisDEL(s, {key}), fail = 3)
        w == IF t.reply = -1
             THEN Do(s, RedisSET(s, key, value), fail = 3)
             ELSE Do(s, RedisSETEX(s, key, t.reply, value), fail = 3)
    IN  IF t.err THEN Result(s, Nil, FALSE, 0, TRUE, <<"TTL">>)
        ELSE IF t.reply = -2 THEN Result(s, Nil, FALSE, 0, FALSE, <<"TTL">>)
        ELSE IF value = Nil
        THEN Result(d.store, g.reply, FALSE, 0, d.err, <<"TTL", "GET", "DEL">>)
        ELSE Result(w.store, g.reply, TRUE, 0, w.err, <<"TTL", "GET", w.name>>)

\* Redis.Update
Update(s, key, value, fail) ==
    LET t == Do(s, RedisTTL(s, key), fail = 1)
        g == Do(s, RedisGET(s, key), fail = 2)
        d == Do(s, RedisDEL(s, {key}), fail = 3)
        w == IF t.reply = -1
             THEN Do(s, RedisSET(s, key, value), fail = 3)
             ELSE Do(s, RedisSETEX(s, key, t.reply, value), fail = 3)
    IN  IF t.err THEN Result(s, Nil, FALSE, 0, TRUE, <<"TTL">>)
        ELSE IF t.reply = -2 THEN Result(s, Nil, FALSE, 0, FALSE, <<"TTL">>)
        ELSE IF g.err THEN Result(s, Nil, FALSE, 0, TRUE, <<"TTL", "GET">>)
        ELSE IF value = Nil
        THEN Result(d.store, g.reply, FALSE, 0, d.err, <<"TTL", "GET", "DEL">>)
        ELSE Result(w.store, g.reply, TRUE, 0, w.err, <<"TTL", "GET", w.name>>)

\* The value argument of SetIfNotExist: a literal value (nil included), or
\* a function that yields the value v and, if ferr, an error.
Lit(v) == [kind |-> "lit", v |-> v, ferr |-> FALSE]
Func(v, ferr) == [kind |-> "func", v |-> v, ferr |-> ferr]

\* SetIfNotExist as it would be writing with SET in place of SETNX.
SetIfNotExistOverwrites(s, key, arg, duration, fail) ==
    LET value == arg.v
        d == Do(s, RedisDEL(s, {key, value}), fail = 1)
        n == Do(s, RedisSET(s, key, value), fail = 1)
        e == Do(n.store, RedisEXPIRE(n.store, key, duration \div Second), fail = 2)
    IN  IF arg.kind = "func" /\ value = Nil
        THEN Result(s, Nil, FALSE, 0, arg.ferr, <<>>)
        ELSE IF duration < 0 \/ value = Nil
        THEN IF d.err THEN Result(s, Nil, FALSE, 0, TRUE, <<"DEL">>)
             ELSE Result(d.store, Nil, d.reply = 1, 0, FALSE, <<"DEL">>)
        ELSE IF n.err THEN Result(s, Nil, FALSE, 0, TRUE, <<"SET">>)
        ELSE IF n.reply > 0 /\ duration > 0
        THEN IF e.err THEN Result(e.store, Nil, FALSE, 0, TRUE, <<"SET", "EXPIRE">>)
             ELSE Result(e.store, Nil, TRUE, 0, FALSE, <<"SET", "EXPIRE">>)
        ELSE Result(n.store, Nil, FALSE, 0, FALSE, <<"SET">>)

\* SetIfNotExist as it would be without the return on a function that
\* yields nil.
SetIfNotExistNilFalls(s, key, arg, duration, fail) ==
    LET value == arg.v
        d == Do(s, RedisDEL(s, {key, value}), fail = 1)
        n == Do(s, RedisSETNX(s, key, value), fail = 1)
        e == Do(n.store, RedisEXPIRE(n.store, key, duration \div Second), fail = 2)
    IN  IF duration < 0 \/ value = Nil
        THEN IF d.err THEN Result(s, Nil, FALSE, 0, TRUE, <<"DEL">>)
             ELSE Result(d.store, Nil, d.reply = 1, 0, FALSE, <<"DEL">>)
        ELSE IF n.err THEN Result(s, Nil, FALSE, 0, TRUE, <<"SETNX">>)
        ELSE IF n.reply > 0 /\ duration > 0
        THEN IF e.err THEN Result(e.store, Nil, FALSE, 0, TRUE, <<"SETNX", "EXPIRE">>)
             ELSE Result(e.store, Nil, TRUE, 0, FALSE, <<"SETNX", "EXPIRE">>)
        ELSE Result(n.store, Nil, FALSE, 0, FALSE, <<"SETNX">>)

\* SetIfNotExist as it would be undoing SETNX when EXPIRE fails.
SetIfNotExistRollsBack(s, key, arg, duration, fail) ==
    LET value == arg.v
        d == Do(s, RedisDEL(s, {key, value}), fail = 1)
        n == Do(s, RedisSETNX(s, key, value), fail = 1)
        e == Do(n.store, RedisEXPIRE(n.store, key, duration \div Second), fail = 2)
    IN  IF arg.kind = "func" /\ value = Nil
        THEN Result(s, Nil, FALSE, 0, arg.ferr, <<>>)
        ELSE IF duration < 0 \/ value = Nil
        THEN IF d.err THEN Result(s, Nil, FALSE, 0, TRUE, <<"DEL">>)
             ELSE Result(d.store, Nil, d.reply = 1, 0, FALSE, <<"DEL">>)
        ELSE IF n.err THEN Result(s, Nil, FALSE, 0, TRUE, <<"SETNX">>)
        ELSE IF n.reply > 0 /\ duration > 0
        THEN IF e.err THEN Result(s, Nil, FALSE, 0, TRUE, <<"SETNX", "EXPIRE">>)
             ELSE Result(e.store, Nil, TRUE, 0, FALSE, <<"SETNX", "EXPIRE">>)
        ELSE Result(n.store, Nil, FALSE, 0, FALSE, <<"SETNX">>)

\* Redis.SetIfNotExist
SetIfNotExist(s, key, arg, duration, fail) ==
    LET value == arg.v
        d == Do(s, RedisDEL(s, {key, value}), fail = 1)
        n == Do(s, RedisSETNX(s, key, value), fail = 1)
        e == Do(n.store, RedisEXPIRE(n.store, key, duration \div Second), fail = 2)
    IN  IF arg.kind = "func" /\ value = Nil
        THEN Result(s, Nil, FALSE, 0, arg.ferr, <<>>)
        ELSE IF duration < 0 \/ value = Nil
        THEN IF d.err THEN Result(s, Nil, FALSE, 0, TRUE, <<"DEL">>)
             ELSE Result(d.store, Nil, d.reply = 1, 0, FALSE, <<"DEL">>)
        ELSE IF n.err THEN Result(s, Nil, FALSE, 0, TRUE, <<"SETNX">>)
        ELSE IF n.reply > 0 /\ duration > 0
        THEN IF e.err THEN Result(e.store, Nil, FALSE, 0, TRUE, <<"SETNX", "EXPIRE">>)
             ELSE Result(e.store, Nil, TRUE, 0, FALSE, <<"SETNX", "EXPIRE">>)
        ELSE Result(n.store, Nil, FALSE, 0, FALSE, <<"SETNX">>)

\* UpdateExpire as it would be with the expire test written duration >= 0.
UpdateExpireZeroExpires(s, key, duration, fail) ==
    LET t == Do(s, RedisTTL(s, key), fail = 1)
        old == t.reply * Second
        d == Do(s, RedisDEL(s, {key}), fail = 2)
        e == Do(s, RedisEXPIRE(s, key, duration \div Second), fail = 2)
    IN  IF t.err THEN Result(s, Nil, FALSE, 0, TRUE, <<"TTL">>)
        ELSE IF t.reply = -2 THEN Result(s, Nil, FALSE, -1, FALSE, <<"TTL">>)
        ELSE IF duration < 0
        THEN Result(d.store, Nil, FALSE, old, d.err, <<"TTL", "DEL">>)
        ELSE Result(e.store, Nil, FALSE, old, e.err, <<"TTL", "EXPIRE">>)

\* UpdateExpire as it would be without the test for the absent key.
UpdateExpireNoAbsenceTest(s, key, duration, fail) ==
    LET t == Do(s, RedisTTL(s, key), fail = 1)
        old == t.reply * Second
        d == Do(s, RedisDEL(s, {key}), fail = 2)
        e == Do(s, RedisEXPIRE(s, key, duration \div Second), fail = 2)
        g == Do(s, RedisGET(s, key), fail = 2)
        w == Do(s, RedisSET(s, key, Arg(g.reply)), fail = 3)
    IN  IF t.err THEN Result(s, Nil, FALSE, 0, TRUE, <<"TTL">>)
        ELSE IF duration < 0
        THEN Result(d.store, Nil, FALSE, old, d.err, <<"TTL", "DEL">>)
        ELSE IF duration > 0
        THEN Result(e.store, Nil, FALSE, old, e.err, <<"TTL", "EXPIRE">>)
        ELSE IF g.err THEN Result(s, Nil, FALSE, old, TRUE, <<"TTL", "GET">>)
        ELSE Result(w.store, Nil, FALSE, old, w.err, <<"TTL", "GET", "SET">>)

\* Redis.UpdateExpire.  The old duration is the TTL reply times time.Second,
\* but -1 for the absent key.
UpdateExpire(s, key, duration, fail) ==
    LET t == Do(s, RedisTTL(s, key), fail = 1)
        old == t.reply * Second
        d == Do(s, RedisDEL(s, {key}), fail = 2)
        e == Do(s, RedisEXPIRE(s, key, duration \div Second), fail = 2)
        g == Do(s, RedisGET(s, key), fail = 2)
        w == Do(s, RedisSET(s, key, Arg(g.reply)), fail = 3)
    IN  IF t.err THEN Result(s, Nil, FALSE, 0, TRUE, <<"TTL">>)
        ELSE IF t.reply = -2 THEN Result(s, Nil, FALSE, -1, FALSE, <<"TTL">>)
        ELSE IF duration < 0
        THEN Result(d.store, Nil, FALSE, old, d.err, <<"TTL", "DEL">>)
        ELSE IF duration > 0
        THEN Result(e.store, Nil, FALSE, old, e.err, <<"TTL", "EXPIRE">>)
        ELSE IF g.err THEN Result(s, Nil, FALSE, old, TRUE, <<"TTL", "GET">>)
        ELSE Result(w.store, Nil, FALSE, old, w.err, <<"TTL", "GET", "SET">>)

\* The keys of a key list.
Range(keys) == {keys[i] : i \in 1..Len(keys)}

\* Remove as it would be returning the value of the first key.
RemoveFirstValue(s, keys, fail) ==
    IF Len(keys) = 0 THEN Result(s, Nil, FALSE, 0, FALSE, <<>>)
    ELSE LET g == Do(s, RedisGET(s, keys[1]), fail = 1)
             d == Do(s, RedisDEL(s, Range(keys)), fail = 2)
         IN  IF g.err THEN Result(s, Nil, FALSE, 0, TRUE, <<"GET">>)
             ELSE Result(d.store, g.reply, FALSE, 0, d.err, <<"GET", "DEL">>)

\* Redis.Remove
Remove(s, keys, fail) ==
    IF Len(keys) = 0 THEN Result(s, Nil, FALSE, 0, FALSE, <<>>)
    ELSE LET g == Do(s, RedisGET(s, keys[Len(keys)]), fail = 1)
             d == Do(s, RedisDEL(s, Range(keys)), fail = 2)
         IN  IF g.err THEN Result(s, Nil, FALSE, 0, TRUE, <<"GET">>)
             ELSE Result(d.store, g.reply, FALSE, 0, d.err, <<"GET", "DEL">>)

\* The loop of Sets as it would be going on to the next entry after a Set
\* has failed.
RECURSIVE SetsLoopGoesOn(_, _, _, _, _)
SetsLoopGoesOn(s, data, order, duration, fail) ==
    IF order = <<>> THEN Result(s, Nil, FALSE, 0, FALSE, <<>>)
    ELSE LET w == Set(s, Head(order), data[Head(order)], duration, fail)
             rest == SetsLoopGoesOn(w.store, data, Tail(order), duration, fail - 1)
         IN  Result(rest.store, Nil, FALSE, 0, w.err \/ rest.err,
                    w.cmds \o rest.cmds)

\* The loop of Sets for a positive duration: one Set per entry, in the order
\* the map yields the entries, returning at the first error.
RECURSIVE SetsLoop(_, _, _, _, _)
SetsLoop(s, data, order, duration, fail) ==
    IF order = <<>> THEN Result(s, Nil, FALSE, 0, FALSE, <<>>)
    ELSE LET w == Set(s, Head(order), data[Head(order)], duration, fail)
             rest == SetsLoop(w.store, data, Tail(order), duration, fail - 1)
         IN  IF w.err THEN Result(w.store, Nil, FALSE, 0, TRUE, w.cmds)
             ELSE Result(rest.store, Nil, FALSE, 0, rest.err, w.cmds \o rest.cmds)

\* Redis.Sets.  The map yields its entries in the given order.
Sets(s, data, duration, order, fail) ==
    LET d == Do(s, RedisDEL(s, DOMAIN data), fail = 1)
        m == Do(s, RedisMSET(s, data), fail = 1)
    IN  IF DOMAIN data = {} THEN Result(s, Nil, FALSE, 0, FALSE, <<>>)
        ELSE IF duration < 0
        THEN Result(d.store, Nil, FALSE, 0, d.err, <<"DEL">>)
        ELSE IF duration = 0
        THEN Result(m.store, Nil, FALSE, 0, m.err, <<"MSET">>)
        ELSE SetsLoop(s, data, order, duration, fail)

\* Redis.Keys.  The server lists the keys in the given order.
Keys(s, order, fail) ==
    LET k == Do(s, RedisKEYS(s, order), fail = 1)
    IN  IF k.err THEN Result(s, Nil, FALSE, 0, TRUE, <<"KEYS">>)
        ELSE ResultList(s, k.reply, <<"KEYS">>)

\* Redis.Values
Values(s, order, fail) ==
    LET k == Do(s, RedisKEYS(s, order), fail = 1)
        v == Do(s, RedisMGET(s, k.reply), fail = 2)
    IN  IF k.err THEN Result(s, Nil, FALSE, 0, TRUE, <<"KEYS">>)
        ELSE IF v.err THEN Result(s, Nil, FALSE, 0, TRUE, <<"KEYS", "MGET">>)
        ELSE ResultList(s, v.reply, <<"KEYS", "MGET">>)

\* Redis.Data: the map from each listed key to the value at its position.
Data(s, order, fail) ==
    LET k == Do(s, RedisKEYS(s, order), fail = 1)
        v == Do(s, RedisMGET(s, k.reply), fail = 2)
        keys == k.reply
        values == v.reply
    IN  IF k.err THEN Result(s, Nil, FALSE, 0, TRUE, <<"KEYS">>)
        ELSE IF v.err THEN Result(s, Nil, FALSE, 0, TRUE, <<"KEYS", "MGET">>)
        ELSE ResultList(s,
                        [key \in Range(keys) |->
                            values[CHOOSE i \in 1..Len(keys) : keys[i] = key]],
                        <<"KEYS", "MGET">>)

\* Clear as it would be without the fallback.
ClearNoFallback(s, order, fail) ==
    LET f == Do(s, RedisFLUSHDB(s), fail >= 1)
    IN  Result(f.store, Nil, FALSE, 0, FALSE, <<"FLUSHDB">>)

\* Redis.Clear.  fail >= 1: the server rejects FLUSHDB; fail = 2: the KEYS
\* of the fallback fails as well; fail = 3 or 4: the GET or the DEL of its
\* Remove does.
Clear(s, order, fail) ==
    LET f == Do(s, RedisFLUSHDB(s), fail >= 1)
        keys == Keys(s, order, fail - 1)
        r == Remove(s, keys.list, fail - 2)
    IN  IF ~f.err THEN Result(f.store, Nil, FALSE, 0, FALSE, <<"FLUSHDB">>)
        ELSE IF keys.err
        THEN Result(s, Nil, FALSE, 0, TRUE, <<"FLUSHDB">> \o keys.cmds)
        ELSE Result(r.store, Nil, FALSE, 0, r.err,
                    <<"FLUSHDB">> \o keys.cmds \o r.cmds)

\* SetIfNotExistFunc as it would be without the test that the key is absent.
SetIfNotExistFuncNoTest(s, key, arg, duration, fail) ==
    LET g == Get(s, key, fail)
        w == Set(s, key, arg.v, duration, fail - 1)
    IN  IF g.err THEN Result(s, Nil, FALSE, 0, TRUE, g.cmds)
        ELSE IF arg.ferr
        THEN Result(s, Nil, FALSE, 0, TRUE, g.cmds \o <<"f()">>)
        ELSE IF arg.v = Nil
        THEN Result(s, Nil, FALSE, 0, FALSE, g.cmds \o <<"f()">>)
        ELSE Result(w.store, Nil, TRUE, 0, w.err, g.cmds \o <<"f()">> \o w.cmds)

\* Redis.SetIfNotExistFunc; arg is the function f.  The commands listed
\* include "f()" where f is invoked.  The fail-th remote command of the call
\* is Get's for 1 and Set's for 2.
SetIfNotExistFunc(s, key, arg, duration, fail) ==
    LET g == Get(s, key, fail)
        w == Set(s, key, arg.v, duration, fail - 1)
    IN  IF g.err THEN Result(s, Nil, FALSE, 0, TRUE, g.cmds)
        ELSE IF g.val = Nil
        THEN IF arg.ferr
             THEN Result(s, Nil, FALSE, 0, TRUE, g.cmds \o <<"f()">>)
             ELSE IF arg.v = Nil
             THEN Result(s, Nil, FALSE, 0, FALSE, g.cmds \o <<"f()">>)
             ELSE Result(w.store, Nil, TRUE, 0, w.err,
                         g.cmds \o <<"f()">> \o w.cmds)
        ELSE Result(s, Nil, FALSE, 0, FALSE, g.cmds)

\* Redis.SetIfNotExistFuncLock
SetIfNotExistFuncLock(s, key, arg, duration, fail) ==
    SetIfNotExistFunc(s, key, arg, duration, fail)

\* Redis.GetOrSet
GetOrSet(s, key, arg, duration, fail) ==
    LET g == Get(s, key, fail)
        w == Set(s, key, arg.v, duration, fail - 1)
    IN  IF g.err THEN Result(s, Nil, FALSE, 0, TRUE, g.cmds)
        ELSE IF g.val = Nil
        THEN Result(w.store, arg.v, FALSE, 0, w.err, g.cmds \o w.cmds)
        ELSE Result(s, g.val, FALSE, 0, FALSE, g.cmds)

\* Redis.GetOrSetFunc
GetOrSetFunc(s, key, arg, duration, fail) ==
    LET g == Get(s, key, fail)
        w == Set(s, key, arg.v, duration, fail - 1)
    IN  IF g.err THEN Result(s, Nil, FALSE, 0, TRUE, g.cmds)
        ELSE IF g.val = Nil
        THEN IF arg.ferr
             THEN Result(s, Nil, FALSE, 0, TRUE, g.cmds \o <<"f()">>)
             ELSE IF arg.v = Nil
             THEN Result(s, Nil, FALSE, 0, FALSE, g.cmds \o <<"f()">>)
             ELSE Result(w.store, arg.v, FALSE, 0, w.err,
                         g.cmds \o <<"f()">> \o w.cmds)
        ELSE Result(s, g.val, FALSE, 0, FALSE, g.cmds)

\* Redis.GetOrSetFuncLock
GetOrSetFuncLock(s, key, arg, duration, fail) ==
    GetOrSetFunc(s, key, arg, duration, fail)

(***************************************************************************)
(* The caller: makes one call at a time, holds its result, and takes the   *)
(* next call after Return.                                                 *)
(***************************************************************************)
NoCall ==
    [op |-> "none", key |-> Nil, value |-> Nil, kind |-> "lit", ferr |-> FALSE,
     dur |-> 0, fail |-> 0, keys |-> <<>>, data |-> <<>>]

NoRet ==
    [val |-> Nil, ok |-> FALSE, dur |-> 0, err |-> FALSE, cmds |-> <<>>,
     list |-> <<>>]

Idle == call.op = "none"

\* The concurrent callers of one adapter, and a caller that is in no call.
\* at is the position of the caller's write among the writes of all; lost
\* tells that the key the caller had read was gone when it wrote; seen is
\* the number of writes that had run when the caller read the value.
Procs == {"p", "q"}

NoProc ==
    [op |-> "none", key |-> Nil, arg |-> Lit(Nil), dur |-> 0, pc |-> "idle",
     ttl |-> 0, got |-> Nil, ok |-> FALSE, err |-> FALSE, at |-> 0,
     lost |-> FALSE, seen |-> 0]

NoProcs == [p \in Procs |-> NoProc]

\* The call c is made in the store as it is and comes back with r.
Made(c, r) ==
    /\ Idle
    /\ store' = r.store
    /\ call' = c
    /\ pre' = store
    /\ ret' = [val |-> r.val, ok |-> r.ok, dur |-> r.dur, err |-> r.err,
               cmds |-> r.cmds, list |-> r.list]
    /\ elapsed' = 0
    /\ UNCHANGED procs

\* The call op(key, arg, d), whose fail-th remote command fails.
Invoke(op, key, arg, d, fail, r) ==
    Made([NoCall EXCEPT !.op = op, !.key = key, !.value = arg.v,
                        !.kind = arg.kind, !.ferr = arg.ferr, !.dur = d,
                        !.fail = fail], r)

\* The call op(keys...) or op(data, d), whose fail-th remote command fails.
\* For a call without arguments, keys is the order in which the server lists
\* its keys during the call.
InvokeList(op, keys, data, d, fail, r) ==
    Made([NoCall EXCEPT !.op = op, !.keys = keys, !.data = data, !.dur = d,
                        !.fail = fail], r)

\* Every store the program can be in: each key absent, or holding a string
\* without expiry or with at most MaxSecs seconds left.
Entries ==
    {Absent} \cup
    {[val |-> v, rem |-> r] : v \in Str, r \in {-1} \cup (1..(MaxSecs * Second))}

Stores == [Str -> Entries]

\* The store is empty and no call has been made.
Init ==
    /\ store = EmptyStore
    /\ call = NoCall
    /\ pre = EmptyStore
    /\ ret = NoRet
    /\ elapsed = 0
    /\ procs = NoProcs

\* The stores in which a key is absent, or holds the first string without
\* expiry, in its last tick, or with a second left: no operation branches on
\* the value a key holds.
FewStores ==
    {s \in Stores :
        \A k \in Str : s[k].val \in {Nil, 1} /\ s[k].rem \in {-2, -1, 1, Second}}

\* The caller arrives at one of these stores.
InitFew ==
    /\ store \in FewStores
    /\ call = NoCall
    /\ pre = EmptyStore
    /\ ret = NoRet
    /\ elapsed = 0
    /\ procs = NoProcs

\* The caller arrives at a store that earlier calls and the passing of time
\* have left in any of its states.
InitAny ==
    /\ store \in Stores
    /\ call = NoCall
    /\ pre = EmptyStore
    /\ ret = NoRet
    /\ elapsed = 0
    /\ procs = NoProcs

Literals == {Lit(v) : v \in Str \cup {Nil}}

Producers == {Func(v, e) : v \in Str \cup {Nil}, e \in BOOLEAN}

\* The calls in which every remote command is answered.
CallSet ==
    /\ Idle
    /\ \E k \in Str, v \in Str \cup {Nil}, d \in Durations :
           Invoke("Set", k, Lit(v), d, 0, Set(store, k, v, d, 0))

CallGet ==
    /\ Idle
    /\ \E k \in Str :
           Invoke("Get", k, Lit(Nil), 0, 0, Get(store, k, 0))

CallContains ==
    /\ Idle
    /\ \E k \in Str :
           Invoke("Contains", k, Lit(Nil), 0, 0, Contains(store, k, 0))

CallGetExpire ==
    /\ Idle
    /\ \E k \in Str :
           Invoke("GetExpire", k, Lit(Nil), 0, 0, GetExpire(store, k, 0))

CallSize ==
    /\ Idle
    /\ Invoke("Size", Nil, Lit(Nil), 0, 0, Size(store, 0))

CallClose ==
    /\ Idle
    /\ Invoke("Close", Nil, Lit(Nil), 0, 0, Close(store))

CallUpdate ==
    /\ Idle
    /\ \E k \in Str, v \in Str \cup {Nil} :
           Invoke("Update", k, Lit(v), 0, 0, Update(store, k, v, 0))

CallUpdateExpire ==
    /\ Idle
    /\ \E k \in Str, d \in Durations :
           Invoke("UpdateExpire", k, Lit(Nil), d, 0, UpdateExpire(store, k, d, 0))

\* The key lists given to Remove.
KeyLists == UNION {[1..n -> Str] : n \in 0..MaxRemove}

CallRemove ==
    /\ Idle
    /\ \E keys \in KeyLists :
           InvokeList("Remove", keys, <<>>, 0, 0, Remove(store, keys, 0))

\* The maps given to Sets, a nil value included, and the orders in which a
\* map can yield its keys.
DataMaps == UNION {[S -> Str \cup {Nil}] : S \in SUBSET Str}

Orders(S) == {o \in [1..Cardinality(S) -> S] : Range(o) = S}

CallSets ==
    /\ Idle
    /\ \E data \in DataMaps, d \in Durations :
           \E order \in Orders(DOMAIN data) :
               InvokeList("Sets", order, data, d, 0, Sets(store, data, d, order, 0))

\* The keys of the store, which the server lists in any order.
Live(s) == {k \in Str : Exists(s, k)}

CallData ==
    /\ Idle
    /\ \E order \in Orders(Live(store)) :
           InvokeList("Data", order, <<>>, 0, 0, Data(store, order, 0))

CallKeys ==
    /\ Idle
    /\ \E order \in Orders(Live(store)) :
           InvokeList("Keys", order, <<>>, 0, 0, Keys(store, order, 0))

CallValues ==
    /\ Idle
    /\ \E order \in Orders(Live(store)) :
           InvokeList("Values", order, <<>>, 0, 0, Values(store, order, 0))

CallClear ==
    /\ Idle
    /\ \E order \in Orders(Live(store)) :
           InvokeList("Clear", order, <<>>, 0, 0, Clear(store, order, 0))

\* SetIfNotExist with a literal value, and with a function as the value.
CallSetIfNotExist ==
    /\ Idle
    /\ \E k \in Str, a \in Literals, d \in Durations :
           Invoke("SetIfNotExist", k, a, d, 0, SetIfNotExist(store, k, a, d, 0))

CallSetIfNotExistProducer ==
    /\ Idle
    /\ \E k \in Str, a \in Producers, d \in Durations :
           Invoke("SetIfNotExist", k, a, d, 0, SetIfNotExist(store, k, a, d, 0))

\* SetIfNotExist with a function that yields nil, with or without an error.
CallSetIfNotExistNilProducer ==
    /\ Idle
    /\ \E k \in Str, e \in BOOLEAN, d \in Durations :
           Invoke("SetIfNotExist", k, Func(Nil, e), d, 0,
                  SetIfNotExist(store, k, Func(Nil, e), d, 0))

\* SetIfNotExistFunc with a function that returns no error, and with one
\* that returns an error.
CallSetIfNotExistFunc ==
    /\ Idle
    /\ \E k \in Str, v \in Str \cup {Nil}, d \in Durations :
           Invoke("SetIfNotExistFunc", k, Func(v, FALSE), d, 0,
                  SetIfNotExistFunc(store, k, Func(v, FALSE), d, 0))

CallSetIfNotExistFuncErr ==
    /\ Idle
    /\ \E k \in Str, v \in Str \cup {Nil}, d \in Durations :
           Invoke("SetIfNotExistFunc", k, Func(v, TRUE), d, 0,
                  SetIfNotExistFunc(store, k, Func(v, TRUE), d, 0))

CallSetIfNotExistFuncLock ==
    /\ Idle
    /\ \E k \in Str, a \in Producers, d \in Durations :
           Invoke("SetIfNotExistFuncLock", k, a, d, 0,
                  SetIfNotExistFuncLock(store, k, a, d, 0))

CallGetOrSet ==
    /\ Idle
    /\ \E k \in Str, a \in Literals, d \in Durations :
           Invoke("GetOrSet", k, a, d, 0, GetOrSet(store, k, a, d, 0))

CallGetOrSetFunc ==
    /\ Idle
    /\ \E k \in Str, a \in Producers, d \in Durations :
           Invoke("GetOrSetFunc", k, a, d, 0, GetOrSetFunc(store, k, a, d, 0))

CallGetOrSetFuncLock ==
    /\ Idle
    /\ \E k \in Str, a \in Producers, d \in Durations :
           Invoke("GetOrSetFuncLock", k, a, d, 0,
                  GetOrSetFuncLock(store, k, a, d, 0))

\* The calls in which the f-th remote command fails.
FailSet ==
    /\ Idle
    /\ \E k \in Str, v \in Str \cup {Nil}, d \in Durations :
           Invoke("Set", k, Lit(v), d, 1, Set(store, k, v, d, 1))

FailGet ==
    /\ Idle
    /\ \E k \in Str :
           Invoke("Get", k, Lit(Nil), 0, 1, Get(store, k, 1))

FailContains ==
    /\ Idle
    /\ \E k \in Str :
           Invoke("Contains", k, Lit(Nil), 0, 1, Contains(store, k, 1))

FailGetExpire ==
    /\ Idle
    /\ \E k \in Str :
           Invoke("GetExpire", k, Lit(Nil), 0, 1, GetExpire(store, k, 1))

FailSize ==
    /\ Idle
    /\ Invoke("Size", Nil, Lit(Nil), 0, 1, Size(store, 1))

FailUpdate ==
    /\ Idle
    /\ \E k \in Str, v \in Str \cup {Nil}, f \in 1..3 :
           Invoke("Update", k, Lit(v), 0, f, Update(store, k, v, f))

FailUpdateExpire ==
    /\ Idle
    /\ \E k \in Str, d \in Durations, f \in 1..3 :
           Invoke("UpdateExpire", k, Lit(Nil), d, f, UpdateExpire(store, k, d, f))

FailRemove ==
    /\ Idle
    /\ \E keys \in KeyLists \ {<<>>}, f \in 1..2 :
           InvokeList("Remove", keys, <<>>, 0, f, Remove(store, keys, f))

FailSets ==
    /\ Idle
    /\ \E data \in DataMaps \ {<<>>}, d \in Durations :
           \E order \in Orders(DOMAIN data) :
               \E f \in 1..(IF d > 0 THEN Len(order) ELSE 1) :
                   InvokeList("Sets", order, data, d, f, Sets(store, data, d, order, f))

FailData ==
    /\ Idle
    /\ \E order \in Orders(Live(store)), f \in 1..2 :
           InvokeList("Data", order, <<>>, 0, f, Data(store, order, f))

FailKeys ==
    /\ Idle
    /\ \E order \in Orders(Live(store)) :
           InvokeList("Keys", order, <<>>, 0, 1, Keys(store, order, 1))

FailValues ==
    /\ Idle
    /\ \E order \in Orders(Live(store)), f \in 1..2 :
           InvokeList("Values", order, <<>>, 0, f, Values(store, order, f))

FailClear ==
    /\ Idle
    /\ \E order \in Orders(Live(store)), f \in 1..4 :
           InvokeList("Clear", order, <<>>, 0, f, Clear(store, order, f))

FailSetIfNotExist ==
    /\ Idle
    /\ \E k \in Str, a \in Literals \cup Producers, d \in Durations, f \in 1..2 :
           Invoke("SetIfNotExist", k, a, d, f, SetIfNotExist(store, k, a, d, f))

FailSetIfNotExistFunc ==
    /\ Idle
    /\ \E k \in Str, a \in Producers, d \in Durations, f \in 1..2 :
           Invoke("SetIfNotExistFunc", k, a, d, f,
                  SetIfNotExistFunc(store, k, a, d, f))

FailGetOrSet ==
    /\ Idle
    /\ \E k \in Str, a \in Literals, d \in Durations, f \in 1..2 :
           Invoke("GetOrSet", k, a, d, f, GetOrSet(store, k, a, d, f))

FailGetOrSetFunc ==
    /\ Idle
    /\ \E k \in Str, a \in Producers, d \in Durations, f \in 1..2 :
           Invoke("GetOrSetFunc", k, a, d, f, GetOrSetFunc(store, k, a, d, f))

\* The caller is done with the result of the call in hand.
Return ==
    /\ ~Idle
    /\ call' = NoCall
    /\ pre' = EmptyStore
    /\ ret' = NoRet
    /\ elapsed' = 0
    /\ UNCHANGED <<store, procs>>

\* A tick passes between two calls.
Tick ==
    /\ Idle
    /\ store' = Age(store)
    /\ store' # store
    /\ UNCHANGED <<call, pre, ret, elapsed, procs>>

\* A tick passes while the caller sleeps after a Set with an expiry, until
\* the duration it gave is over.
Sleep ==
    /\ call.op = "Set"
    /\ call.dur > 0
    /\ elapsed <= call.dur
    /\ store' = Age(store)
    /\ elapsed' = elapsed + 1
    /\ UNCHANGED <<call, pre, ret, procs>>

(***************************************************************************)
(* Concurrent callers.  Each makes one call, one remote command (or one    *)
(* invocation of f) at a time; the server runs each command atomically.    *)
(* Nothing in the adapter orders the callers' steps.                       *)
(***************************************************************************)
\* Caller p moves on to rec and leaves the store as s.
Move(p, s, rec) ==
    /\ Idle
    /\ store' = s
    /\ procs' = [procs EXCEPT ![p] = rec]
    /\ UNCHANGED <<call, pre, ret, elapsed>>

\* The position the next write takes among the writes made so far.
NextAt == 1 + Cardinality({q \in Procs : procs[q].at > 0})

\* A caller enters SetIfNotExistFunc, or SetIfNotExistFuncLock, which does
\* nothing but call SetIfNotExistFunc.
StartProducer(op) ==
    \E p \in Procs, k \in Str, a \in Producers, d \in Durations :
        /\ procs[p].pc = "idle"
        /\ Move(p, store, [NoProc EXCEPT !.op = op, !.key = k, !.arg = a,
                                         !.dur = d, !.pc = "GET"])

StartSetIfNotExistFunc == StartProducer("SetIfNotExistFunc")

StartSetIfNotExistFuncLock == StartProducer("SetIfNotExistFuncLock")

ProducerOps == {"SetIfNotExistFunc", "SetIfNotExistFuncLock"}

\* v, err := c.Get(ctx, key)
FuncGet ==
    \E p \in Procs :
        /\ procs[p].op \in ProducerOps /\ procs[p].pc = "GET"
        /\ LET g == Get(store, procs[p].key, 0)
           IN  Move(p, store,
                    [procs[p] EXCEPT !.got = g.val,
                                     !.pc = IF g.val = Nil THEN "f" ELSE "done"])

\* value, err := f()
FuncInvoke ==
    \E p \in Procs :
        /\ procs[p].op \in ProducerOps /\ procs[p].pc = "f"
        /\ Move(p, store,
                IF procs[p].arg.ferr
                THEN [procs[p] EXCEPT !.err = TRUE, !.pc = "done"]
                ELSE IF procs[p].arg.v = Nil
                THEN [procs[p] EXCEPT !.pc = "done"]
                ELSE [procs[p] EXCEPT !.pc = "SET"])

\* The write of SetIfNotExistFunc as it would be leaving alone a key that
\* exists by now.
FuncSetIfAbsent ==
    \E p \in Procs :
        /\ procs[p].op \in ProducerOps /\ procs[p].pc = "SET"
        /\ LET w == IF Exists(store, procs[p].key)
                    THEN Result(store, Nil, FALSE, 0, FALSE, <<>>)
                    ELSE Set(store, procs[p].key, procs[p].arg.v, procs[p].dur, 0)
           IN  Move(p, w.store,
                    [procs[p] EXCEPT !.ok = TRUE, !.err = w.err,
                                     !.at = NextAt, !.pc = "done"])

\* return true, c.Set(ctx, key, value, duration)
FuncSet ==
    \E p \in Procs :
        /\ procs[p].op \in ProducerOps /\ procs[p].pc = "SET"
        /\ LET w == Set(store, procs[p].key, procs[p].arg.v, procs[p].dur, 0)
           IN  Move(p, w.store,
                    [procs[p] EXCEPT !.ok = TRUE, !.err = w.err,
                                     !.at = NextAt, !.pc = "done"])

\* A caller enters SetIfNotExist with a literal value.
StartSetIfNotExist ==
    \E p \in Procs, k \in Str, a \in Literals, d \in Durations :
        /\ procs[p].pc = "idle"
        /\ Move(p, store,
                [NoProc EXCEPT !.op = "SetIfNotExist", !.key = k, !.arg = a,
                               !.dur = d,
                               !.pc = IF d < 0 \/ a.v = Nil THEN "DEL" ELSE "SETNX"])

\* DoVar("DEL", key, value)
SetIfNotExistDel ==
    \E p \in Procs :
        /\ procs[p].op = "SetIfNotExist" /\ procs[p].pc = "DEL"
        /\ LET d == RedisDEL(store, {procs[p].key, procs[p].arg.v})
           IN  Move(p, d.store,
                    [procs[p] EXCEPT !.ok = (d.reply = 1), !.pc = "done"])

\* DoVar("SETNX", key, value)
SetIfNotExistSetnx ==
    \E p \in Procs :
        /\ procs[p].op = "SetIfNotExist" /\ procs[p].pc = "SETNX"
        /\ LET n == RedisSETNX(store, procs[p].key, procs[p].arg.v)
           IN  Move(p, n.store,
                    [procs[p] EXCEPT
                        !.at = IF n.reply > 0 THEN NextAt ELSE 0,
                        !.pc = IF n.reply > 0 /\ procs[p].dur > 0
                               THEN "EXPIRE" ELSE "done"])

\* Do("EXPIRE", key, uint64(duration.Seconds()))
SetIfNotExistExpire ==
    \E p \in Procs :
        /\ procs[p].op = "SetIfNotExist" /\ procs[p].pc = "EXPIRE"
        /\ LET e == RedisEXPIRE(store, procs[p].key, procs[p].dur \div Second)
           IN  Move(p, e.store, [procs[p] EXCEPT !.ok = TRUE, !.pc = "done"])

\* A caller enters Update.
StartUpdate ==
    \E p \in Procs, k \in Str, v \in Str \cup {Nil} :
        /\ procs[p].pc = "idle"
        /\ Move(p, store,
                [NoProc EXCEPT !.op = "Update", !.key = k, !.arg = Lit(v),
                               !.pc = "TTL"])

\* DoVar("TTL", key), and the return for the key that does not exist.
UpdateTtl ==
    \E p \in Procs :
        /\ procs[p].op = "Update" /\ procs[p].pc = "TTL"
        /\ LET t == RedisTTL(store, procs[p].key)
           IN  Move(p, store,
                    [procs[p] EXCEPT !.ttl = t.reply,
                                     !.pc = IF t.reply = -2 THEN "done" ELSE "GET"])

\* DoVar("GET", key)
UpdateGet ==
    \E p \in Procs :
        /\ procs[p].op = "Update" /\ procs[p].pc = "GET"
        /\ LET g == RedisGET(store, procs[p].key)
           IN  Move(p, store, [procs[p] EXCEPT !.got = g.reply, !.pc = "WRITE"])

\* The write of Update as it would be writing back the value read.
UpdateWriteOldValue ==
    \E p \in Procs :
        /\ procs[p].op = "Update" /\ procs[p].pc = "WRITE"
        /\ LET key == procs[p].key
               value == procs[p].arg.v
               w == IF value = Nil THEN RedisDEL(store, {key})
                    ELSE IF procs[p].ttl = -1
                    THEN RedisSET(store, key, Arg(procs[p].got))
                    ELSE RedisSETEX(store, key, procs[p].ttl, Arg(procs[p].got))
           IN  Move(p, w.store,
                    [procs[p] EXCEPT !.ok = (value # Nil), !.err = w.err,
                                     !.at = NextAt,
                                     !.lost = ~Exists(store, key),
                                     !.pc = "done"])

\* DoVar("DEL", key) for a nil value, else DoVar("SET", key, value) or
\* DoVar("SETEX", key, seconds, value) with the TTL read before.
UpdateWrite ==
    \E p \in Procs :
        /\ procs[p].op = "Update" /\ procs[p].pc = "WRITE"
        /\ LET key == procs[p].key
               value == procs[p].arg.v
               w == IF value = Nil THEN RedisDEL(store, {key})
                    ELSE IF procs[p].ttl = -1 THEN RedisSET(store, key, value)
                    ELSE RedisSETEX(store, key, procs[p].ttl, value)
           IN  Move(p, w.store,
                    [procs[p] EXCEPT !.ok = (value # Nil), !.err = w.err,
                                     !.at = NextAt,
                                     !.lost = ~Exists(store, key),
                                     !.pc = "done"])

\* A caller enters Remove(k).
StartRemove ==
    \E p \in Procs, k \in Str :
        /\ procs[p].pc = "idle"
        /\ Move(p, store, [NoProc EXCEPT !.op = "Remove", !.key = k, !.pc = "GET"])

\* DoVar("GET", keys[len(keys)-1])
RemoveGet ==
    \E p \in Procs :
        /\ procs[p].op = "Remove" /\ procs[p].pc = "GET"
        /\ LET g == RedisGET(store, procs[p].key)
           IN  Move(p, store, [procs[p] EXCEPT !.got = g.reply, !.pc = "DEL"])

\* DoVar("DEL", keys...)
RemoveDel ==
    \E p \in Procs :
        /\ procs[p].op = "Remove" /\ procs[p].pc = "DEL"
        /\ LET d == RedisDEL(store, {procs[p].key})
           IN  Move(p, d.store,
                    [procs[p] EXCEPT !.at = NextAt, !.pc = "done"])

\* A caller runs Set, which is one remote command.
RunSet ==
    \E p \in Procs, k \in Str, v \in Str \cup {Nil}, d \in Durations :
        /\ procs[p].pc = "idle"
        /\ LET w == Set(store, k, v, d, 0)
           IN  Move(p, w.store,
                    [NoProc EXCEPT !.op = "Set", !.key = k, !.arg = Lit(v),
                                   !.dur = d, !.err = w.err, !.at = NextAt,
                                   !.pc = "done"])

\* A caller enters UpdateExpire.
StartUpdateExpire ==
    \E p \in Procs, k \in Str, d \in Durations :
        /\ procs[p].pc = "idle"
        /\ Move(p, store,
                [NoProc EXCEPT !.op = "UpdateExpire", !.key = k, !.dur = d,
                               !.pc = "TTL"])

\* DoVar("TTL", key), and the return for the key that does not exist.
UpdateExpireTtl ==
    \E p \in Procs :
        /\ procs[p].op = "UpdateExpire" /\ procs[p].pc = "TTL"
        /\ LET t == RedisTTL(store, procs[p].key)
           IN  Move(p, store,
                    [procs[p] EXCEPT
                        !.ttl = t.reply,
                        !.pc = IF t.reply = -2 THEN "done"
                               ELSE IF procs[p].dur < 0 THEN "DEL"
                               ELSE IF procs[p].dur > 0 THEN "EXPIRE"
                               ELSE "GET"])

\* Do("DEL", key)
UpdateExpireDel ==
    \E p \in Procs :
        /\ procs[p].op = "UpdateExpire" /\ procs[p].pc = "DEL"
        /\ LET d == RedisDEL(store, {procs[p].key})
           IN  Move(p, d.store,
                    [procs[p] EXCEPT !.at = NextAt, !.pc = "done"])

\* Do("EXPIRE", key, uint64(duration.Seconds()))
UpdateExpireExpire ==
    \E p \in Procs :
        /\ procs[p].op = "UpdateExpire" /\ procs[p].pc = "EXPIRE"
        /\ LET e == RedisEXPIRE(store, procs[p].key, procs[p].dur \div Second)
           IN  Move(p, e.store,
                    [procs[p] EXCEPT !.err = e.err, !.at = NextAt, !.pc = "done"])

\* DoVar("GET", key)
UpdateExpireGet ==
    \E p \in Procs :
        /\ procs[p].op = "UpdateExpire" /\ procs[p].pc = "GET"
        /\ LET g == RedisGET(store, procs[p].key)
           IN  Move(p, store,
                    [procs[p] EXCEPT !.got = g.reply, !.seen = NextAt - 1,
                                     !.pc = "SET"])

\* The rewrite of UpdateExpire as it would be writing the value the key has
\* by now.
UpdateExpireSetFresh ==
    \E p \in Procs :
        /\ procs[p].op = "UpdateExpire" /\ procs[p].pc = "SET"
        /\ LET w == RedisSET(store, procs[p].key,
                             Arg(RedisGET(store, procs[p].key).reply))
           IN  Move(p, w.store,
                    [procs[p] EXCEPT !.err = w.err, !.at = NextAt, !.pc = "done"])

\* Do("SET", key, v.Val())
UpdateExpireSet ==
    \E p \in Procs :
        /\ procs[p].op = "UpdateExpire" /\ procs[p].pc = "SET"
        /\ LET w == RedisSET(store, procs[p].key, Arg(procs[p].got))
           IN  Move(p, w.store,
                    [procs[p] EXCEPT !.err = w.err, !.at = NextAt, !.pc = "done"])

Next ==
    \/ CallSet
    \/ CallGet
    \/ CallContains
    \/ CallGetExpire
    \/ CallSize
    \/ CallClose
    \/ CallUpdate
    \/ CallUpdateExpire
    \/ CallRemove
    \/ CallSets
    \/ CallData
    \/ CallKeys
    \/ CallValues
    \/ CallClear
    \/ CallSetIfNotExist
    \/ CallSetIfNotExistProducer
    \/ CallSetIfNotExistFunc
    \/ CallSetIfNotExistFuncErr
    \/ CallSetIfNotExistFuncLock
    \/ CallGetOrSet
    \/ CallGetOrSetFunc
    \/ CallGetOrSetFuncLock
    \/ FailSet
    \/ FailGet
    \/ FailContains
    \/ FailGetExpire
    \/ FailSize
    \/ FailUpdate
    \/ FailUpdateExpire
    \/ FailRemove
    \/ FailSets
    \/ FailData
    \/ FailKeys
    \/ FailValues
    \/ FailClear
    \/ FailSetIfNotExist
    \/ FailSetIfNotExistFunc
    \/ FailGetOrSet
    \/ FailGetOrSetFunc
    \/ Return
    \/ Tick

\* Every operation, from the empty store.
Spec == Init /\ [][Next]_vars

\* One Set on any store.
NextSet == CallSet

SpecSet == InitAny /\ [][NextSet]_vars

\* From the empty store: Set, and the caller sleeping on its result.
NextExpire == CallSet \/ Return \/ Tick \/ Sleep

SpecExpire == Init /\ [][NextExpire]_vars

\* One Update on any store.
NextUpdate == CallUpdate

SpecUpdate == InitAny /\ [][NextUpdate]_vars

\* One SetIfNotExist of a literal value on any store.
NextSetIfNotExist == CallSetIfNotExist

SpecSetIfNotExist == InitAny /\ [][NextSetIfNotExist]_vars

\* One SetIfNotExist of a function that yields nil on any store.
NextSetIfNotExistNilProducer == CallSetIfNotExistNilProducer

SpecSetIfNotExistNilProducer == InitAny /\ [][NextSetIfNotExistNilProducer]_vars

\* One SetIfNotExistFunc, of a function that returns no error, on any store.
NextSetIfNotExistFunc == CallSetIfNotExistFunc

SpecSetIfNotExistFunc == InitAny /\ [][NextSetIfNotExistFunc]_vars

\* One UpdateExpire on any store.
NextUpdateExpire == CallUpdateExpire

SpecUpdateExpire == InitAny /\ [][NextUpdateExpire]_vars

\* One Remove on any store.
NextRemove == CallRemove

SpecRemove == InitAny /\ [][NextRemove]_vars

\* One Clear on any store, the server accepting FLUSHDB or not.
NextClear ==
    \/ CallClear
    \/ FailClear

SpecClear == InitAny /\ [][NextClear]_vars

\* One call of an operation that reads or changes a key, answered by the
\* server, on any store.
NextAbsence ==
    \/ CallGet
    \/ CallContains
    \/ CallGetExpire
    \/ CallUpdate
    \/ CallUpdateExpire
    \/ CallRemove

SpecAbsence == InitAny /\ [][NextAbsence]_vars

\* One call of an operation other than Clear in which a remote command
\* fails.
NextFailFast ==
    \/ FailSet
    \/ FailGet
    \/ FailContains
    \/ FailGetExpire
    \/ FailSize
    \/ FailUpdate
    \/ FailUpdateExpire
    \/ FailRemove
    \/ FailSets
    \/ FailData
    \/ FailKeys
    \/ FailValues
    \/ FailSetIfNotExist
    \/ FailSetIfNotExistFunc
    \/ FailGetOrSet
    \/ FailGetOrSetFunc

SpecFailFast == InitFew /\ [][NextFailFast]_vars

\* Concurrent calls of SetIfNotExistFuncLock.
NextFuncLock ==
    \/ StartSetIfNotExistFuncLock
    \/ FuncGet
    \/ FuncInvoke
    \/ FuncSet

SpecFuncLock == InitFew /\ [][NextFuncLock]_vars

\* Concurrent calls of SetIfNotExist, from the empty store.
NextSetIfNotExistRace ==
    \/ StartSetIfNotExist
    \/ SetIfNotExistDel
    \/ SetIfNotExistSetnx
    \/ SetIfNotExistExpire

SpecSetIfNotExistRace == Init /\ [][NextSetIfNotExistRace]_vars

\* Update and Remove(k) by concurrent callers, while time passes.
NextUpdateRace ==
    \/ StartUpdate
    \/ UpdateTtl
    \/ UpdateGet
    \/ UpdateWrite
    \/ StartRemove
    \/ RemoveGet
    \/ RemoveDel
    \/ Tick

SpecUpdateRace == InitFew /\ [][NextUpdateRace]_vars

\* SetIfNotExistFunc by concurrent callers, on keys absent at first.
NextFuncRace ==
    \/ StartSetIfNotExistFunc
    \/ FuncGet
    \/ FuncInvoke
    \/ FuncSet

SpecFuncRace == Init /\ [][NextFuncRace]_vars

\* UpdateExpire and Set by concurrent callers.
NextUpdateExpireRace ==
    \/ StartUpdateExpire
    \/ UpdateExpireTtl
    \/ UpdateExpireDel
    \/ UpdateExpireExpire
    \/ UpdateExpireGet
    \/ UpdateExpireSet
    \/ RunSet

SpecUpdateExpireRace == InitFew /\ [][NextUpdateExpireRace]_vars

\* One SetIfNotExist, every remote command answered or one of them failing.
NextSetIfNotExistFail ==
    \/ CallSetIfNotExist
    \/ CallSetIfNotExistProducer
    \/ FailSetIfNotExist

SpecSetIfNotExistFail == InitFew /\ [][NextSetIfNotExistFail]_vars

\* One Sets, every remote command answered or one of them failing.
NextSetsFail ==
    \/ CallSets
    \/ FailSets

SpecSetsFail == InitFew /\ [][NextSetsFail]_vars

\* One call of an operation that reads, every remote command answered or
\* one of them failing.
NextReadOnly ==
    \/ CallGet
    \/ CallGetExpire
    \/ CallContains
    \/ CallKeys
    \/ CallValues
    \/ CallData
    \/ CallSize
    \/ CallClose
    \/ FailGet
    \/ FailGetExpire
    \/ FailContains
    \/ FailKeys
    \/ FailValues
    \/ FailData
    \/ FailSize

SpecReadOnly == InitAny /\ [][NextReadOnly]_vars

\* The stores the program reaches are the stores of InitAny, and those in
\* which MSET has written the empty string for a nil value.
StoreReachable ==
    \A k \in Str :
        \/ store[k] \in Entries
        \/ store[k].val = Empty /\ [store[k] EXCEPT !.val = 1] \in Entries

(***************************************************************************)
(* The claims.  A call has just returned when it is in hand and no tick    *)
(* has passed since; what a following Get, GetExpire or Size returns is    *)
(* what the operation yields on the store as the call left it.             *)
(***************************************************************************)
Returned(op) == call.op = op /\ call.fail = 0 /\ elapsed = 0

GetAfter(k) == Get(store, k, 0).val

GetExpireAfter(k) == GetExpire(store, k, 0).dur

GetExpireBefore(k) == GetExpire(pre, k, 0).dur

SizeAfter == Size(store, 0).val

\* The keys other than k that the store holds.
OtherKeys(s, k) == {j \in Str \ {k} : Exists(s, j)}

\* C1: after Set(k, v, 0) with a present v returns without error, Get(k)
\* returns v and GetExpire(k) returns 0, whatever k held before.
C1_SetZeroDuration ==
    (Returned("Set") /\ call.value # Nil /\ call.dur = 0 /\ ~ret.err)
        => /\ GetAfter(call.key) = call.value
           /\ GetExpireAfter(call.key) = 0

\* Reached: Set(k, v, 0) has returned on a key that held another value with
\* an expiry.
C1_Witness ==
    /\ Returned("Set") /\ call.value # Nil /\ call.dur = 0 /\ ~ret.err
    /\ pre[call.key].rem > 0
    /\ pre[call.key].val # call.value

\* C2: Set(k, v, d) with d < 0 or with an absent v returns no error and
\* leaves k absent in every prior state: Get(k) returns absent and Size()
\* counts the other keys only.
C2_SetDeletes ==
    (Returned("Set") /\ (call.dur < 0 \/ call.value = Nil))
        => /\ ~ret.err
           /\ ~Exists(store, call.key)
           /\ GetAfter(call.key) = Nil
           /\ SizeAfter = Cardinality(OtherKeys(pre, call.key))

\* Reached: a Set with a present value and a negative duration on a key that
\* was already absent, beside another key that exists.
C2_Witness ==
    /\ Returned("Set") /\ call.dur < 0 /\ call.value # Nil
    /\ ~Exists(pre, call.key)
    /\ OtherKeys(pre, call.key) # {}
    /\ ~ret.err

\* C3: for every present v and every positive d, a d shorter than a second
\* included, Set(k, v, d) succeeds, Get(k) then returns v and GetExpire(k) is
\* greater than 0 and at most d.
C3_SetPositiveDuration ==
    (Returned("Set") /\ call.value # Nil /\ call.dur > 0)
        => /\ ~ret.err
           /\ GetAfter(call.key) = call.value
           /\ GetExpireAfter(call.key) > 0
           /\ GetExpireAfter(call.key) <= call.dur

\* C4: after Set(k, v, d) with d > 0 and no later write to k, once more than
\* d has elapsed Get(k) returns absent, GetExpire(k) returns -1 and Size()
\* does not count k.
C4_ExpiredAfterDuration ==
    (call.op = "Set" /\ call.fail = 0 /\ call.dur > 0 /\ elapsed > call.dur)
        => /\ GetAfter(call.key) = Nil
           /\ GetExpireAfter(call.key) = -1
           /\ SizeAfter = Cardinality(OtherKeys(store, call.key))

\* C5: Update(k, v) on a key that does not exist returns (absent, false, no
\* error), issues no command but the TTL query and leaves the store as it
\* was, for every v, the absent one included.
C5_UpdateAbsentKey ==
    (Returned("Update") /\ ~Exists(pre, call.key))
        => /\ ret.val = Nil
           /\ ~ret.ok
           /\ ~ret.err
           /\ ret.cmds = <<"TTL">>
           /\ store = pre
           /\ ~Exists(store, call.key)

\* Reached: Update with a present value has returned on an absent key.
C5_Witness ==
    /\ Returned("Update")
    /\ ~Exists(pre, call.key)
    /\ call.value # Nil

\* C6: Update(k, v) with a present v on an existing key, whatever TTL the
\* store reports for it, returns (previous value, true, no error); Get(k)
\* then returns v and GetExpire(k) returns what it returned before the call.
C6_UpdateKeepsExpire ==
    (Returned("Update") /\ Exists(pre, call.key) /\ call.value # Nil)
        => /\ ret.val = pre[call.key].val
           /\ ret.ok
           /\ ~ret.err
           /\ GetAfter(call.key) = call.value
           /\ GetExpireAfter(call.key) = GetExpireBefore(call.key)

\* C7: Update(k, absent) on an existing key deletes k and returns (the value
\* k held, true, no error).
C7_UpdateNilDeletes ==
    (Returned("Update") /\ Exists(pre, call.key) /\ call.value = Nil)
        => /\ ~Exists(store, call.key)
           /\ ret.val = pre[call.key].val
           /\ ret.ok
           /\ ~ret.err

\* C8: SetIfNotExist(k, v2, d) with a present v2 and d >= 0 on a key that
\* exists returns false with no error and leaves the value and the remaining
\* TTL of k as they were.
C8_SetIfNotExistKeeps ==
    (/\ Returned("SetIfNotExist") /\ call.kind = "lit" /\ call.value # Nil
     /\ call.dur >= 0 /\ Exists(pre, call.key))
        => /\ ~ret.ok
           /\ ~ret.err
           /\ store[call.key] = pre[call.key]

\* Reached: SetIfNotExist with another value and a positive duration has
\* returned on a key that exists with an expiry.
C8_Witness ==
    /\ Returned("SetIfNotExist") /\ call.kind = "lit" /\ call.value # Nil
    /\ call.dur > 0
    /\ pre[call.key].rem > 0
    /\ pre[call.key].val # call.value

\* C9: SetIfNotExist(k, v, d) with a present v and d >= 0 on an absent key
\* returns true; Get(k) then returns v, and GetExpire(k) is in (0, d] when
\* d > 0 and is 0 when d = 0.
C9_SetIfNotExistSets ==
    (/\ Returned("SetIfNotExist") /\ call.kind = "lit" /\ call.value # Nil
     /\ call.dur >= 0 /\ ~Exists(pre, call.key))
        => /\ ret.ok
           /\ GetAfter(call.key) = call.value
           /\ (call.dur > 0 => /\ GetExpireAfter(call.key) > 0
                               /\ GetExpireAfter(call.key) <= call.dur)
           /\ (call.dur = 0 => GetExpireAfter(call.key) = 0)

\* C10: SetIfNotExist(k, v, d) with d < 0 and a present literal v deletes
\* exactly k: k is absent afterwards, the result is true iff k existed, and
\* every other key, one named v included, keeps its value and TTL.
C10_SetIfNotExistDeletesOnlyKey ==
    (/\ Returned("SetIfNotExist") /\ call.kind = "lit" /\ call.value # Nil
     /\ call.dur < 0)
        => /\ ~Exists(store, call.key)
           /\ ret.ok = Exists(pre, call.key)
           /\ \A j \in Str \ {call.key} : store[j] = pre[j]

\* C11: when the value given to SetIfNotExist is a function that yields an
\* absent value, the call returns false and issues no command: the store is
\* as it was, for every d, d < 0 included.
C11_NilProducerTouchesNothing ==
    (Returned("SetIfNotExist") /\ call.kind = "func" /\ call.value = Nil)
        => /\ ~ret.ok
           /\ ret.cmds = <<>>
           /\ store = pre

\* Reached: such a call with a negative duration has returned on a key that
\* exists.
C11_Witness ==
    /\ Returned("SetIfNotExist") /\ call.kind = "func" /\ call.value = Nil
    /\ call.dur < 0
    /\ Exists(pre, call.key)

\* Whether the function given to the call in hand was invoked.
Invoked == \E i \in 1..Len(ret.cmds) : ret.cmds[i] = "f()"

\* C12: SetIfNotExistFunc(k, f, d): if k exists, f is not invoked, the
\* result is (false, no error) and the store is as it was; if k is absent
\* and f yields an absent value, nothing is stored and the result is (false,
\* no error); if k is absent and f yields a present value v, the store ends
\* as after Set(k, v, d) and the result is true.
C12_SetIfNotExistFunc ==
    (Returned("SetIfNotExistFunc") /\ ~call.ferr)
        => /\ Exists(pre, call.key)
                => (~Invoked /\ ~ret.ok /\ ~ret.err /\ store = pre)
           /\ (~Exists(pre, call.key) /\ call.value = Nil)
                => (Invoked /\ ~ret.ok /\ ~ret.err /\ store = pre)
           /\ (~Exists(pre, call.key) /\ call.value # Nil)
                => /\ Invoked
                   /\ ret.ok
                   /\ store = Set(pre, call.key, call.value, call.dur, 0).store

\* Reached: f has yielded a present value for an absent key and it is stored
\* with the expiry given.
C12_Witness ==
    /\ Returned("SetIfNotExistFunc") /\ ~call.ferr
    /\ ~Exists(pre, call.key)
    /\ call.value # Nil
    /\ ret.ok
    /\ store[call.key] = [val |-> call.value, rem |-> MaxSecs * Second]

\* C13: UpdateExpire(k, 0) on an existing key with value v and any TTL,
\* finite or none, results in Get(k) = v and GetExpire(k) = 0.
C13_UpdateExpireZero ==
    (Returned("UpdateExpire") /\ call.dur = 0 /\ Exists(pre, call.key))
        => /\ ~ret.err
           /\ GetAfter(call.key) = pre[call.key].val
           /\ Exists(store, call.key)
           /\ GetExpireAfter(call.key) = 0

\* Reached: UpdateExpire(k, 0) has returned on a key that had an expiry.
C13_Witness ==
    /\ Returned("UpdateExpire") /\ call.dur = 0
    /\ pre[call.key].rem > 0
    /\ store[call.key].rem = -1

\* C14: for every existing key and every positive d, a d shorter than a
\* second included, UpdateExpire(k, d) leaves the value of k as it was and
\* GetExpire(k) is then greater than 0 and at most d; when d is larger than
\* the remaining TTL, the new GetExpire(k) is larger than the previous one.
C14_UpdateExpirePositive ==
    (Returned("UpdateExpire") /\ call.dur > 0 /\ Exists(pre, call.key))
        => /\ GetAfter(call.key) = pre[call.key].val
           /\ GetExpireAfter(call.key) > 0
           /\ GetExpireAfter(call.key) <= call.dur
           /\ (pre[call.key].rem > 0 /\ call.dur > pre[call.key].rem)
                => GetExpireAfter(call.key) > GetExpireBefore(call.key)

\* C15: UpdateExpire(k, d) on a key that does not exist returns -1 with no
\* error and leaves the store as it was for every d, never creating k; and
\* UpdateExpire(k, d) with d < 0 on an existing key leaves k absent.
C15_UpdateExpireAbsentOrNegative ==
    Returned("UpdateExpire")
        => /\ ~Exists(pre, call.key)
                => (ret.dur = -1 /\ ~ret.err /\ store = pre)
           /\ (Exists(pre, call.key) /\ call.dur < 0)
                => ~Exists(store, call.key)

\* Reached: UpdateExpire(k, 0) has returned on an absent key, and (in
\* another state) UpdateExpire with d < 0 on an existing one.
C15_Witness ==
    /\ Returned("UpdateExpire")
    /\ \/ (~Exists(pre, call.key) /\ call.dur = 0 /\ ret.dur = -1)
       \/ (Exists(pre, call.key) /\ call.dur < 0 /\ ~Exists(store, call.key))

\* C16: GetExpire(k) returns -1 exactly when k does not exist, 0 exactly
\* when k exists and never expires, and otherwise the positive remaining
\* time to live of k; it never reports 0 for a key that has an expiry.
C16_GetExpire ==
    Returned("GetExpire")
        => /\ ~ret.err
           /\ ret.dur = -1 <=> ~Exists(pre, call.key)
           /\ ret.dur = 0 <=> (Exists(pre, call.key) /\ pre[call.key].rem = -1)
           /\ pre[call.key].rem > 0 => ret.dur > 0

\* C17: Remove(k1, ..., kn) with n >= 1 returns the value the last key kn
\* held before the call (absent if kn did not exist) and leaves every given
\* key absent while every key not given keeps its value and TTL; Remove()
\* with no keys returns (absent, nil) and issues no remote command.
C17_Remove ==
    Returned("Remove")
        => /\ ~ret.err
           /\ IF Len(call.keys) = 0
              THEN ret.val = Nil /\ ret.cmds = <<>> /\ store = pre
              ELSE /\ ret.val = pre[call.keys[Len(call.keys)]].val
                   /\ \A k \in Str :
                        IF k \in Range(call.keys)
                        THEN ~Exists(store, k) /\ GetAfter(k) = Nil
                        ELSE store[k] = pre[k]

\* Reached: Remove has returned for two distinct keys holding different
\* values.
C17_Witness ==
    /\ Returned("Remove")
    /\ Len(call.keys) = 2
    /\ Exists(pre, call.keys[1]) /\ Exists(pre, call.keys[2])
    /\ pre[call.keys[1]].val # pre[call.keys[2]].val
    /\ ret.val = pre[call.keys[2]].val

\* The store after Set(k, v, d) has been called for each entry (k, v) of the
\* map: Set writes no key but its own.
SetEach(s, data, d) ==
    [k \in Str |-> IF k \in DOMAIN data
                   THEN Set(s, k, data[k], d, 0).store[k]
                   ELSE s[k]]

\* C18: Sets(entries, d) follows the three-way policy of Set: for every map
\* of entries, entries with an absent value included, and every d, the store
\* after Sets(entries, d) is the store after Set(k, v, d) for each entry; an
\* entry with an absent value ends with its key deleted for d = 0 as for
\* d > 0.
C18_SetsAsSet ==
    Returned("Sets") => store = SetEach(pre, call.data, call.dur)

\* C19: with no concurrent writers, after any sequence of operations Data()
\* returns exactly one entry per existing key, mapped to the value the key
\* holds; Keys() and Values() are as long as Size() says, Values()[i] being
\* the value of Keys()[i]; and Size() is the number of existing keys.
C19_DataKeysValuesSize ==
    /\ Returned("Data")
        => (~ret.err /\ ret.list = [k \in Live(store) |-> store[k].val])
    /\ Returned("Keys")
        => (~ret.err /\ Len(ret.list) = SizeAfter /\ Range(ret.list) = Live(store))
    /\ Returned("Values")
        => /\ ~ret.err
           /\ Len(ret.list) = SizeAfter
           /\ \A i \in 1..Len(call.keys) :
                ret.list[i] = store[Keys(store, call.keys, 0).list[i]].val
    /\ Returned("Size")
        => (~ret.err /\ ret.val = Cardinality(Live(store)))

\* C20: after Clear() returns without error and with no concurrent writers
\* the store is empty (Size() = 0 and every Get returns absent), both when
\* the server accepts FLUSHDB and when it rejects it and Clear falls back to
\* Keys and Remove, the fallback on an empty store included.
C20_ClearEmpties ==
    (call.op = "Clear" /\ elapsed = 0 /\ ~ret.err)
        => /\ store = EmptyStore
           /\ SizeAfter = 0
           /\ \A k \in Str : GetAfter(k) = Nil

\* Reached: the server has rejected FLUSHDB and the fallback has removed
\* the keys the store held.
C20_Witness ==
    /\ call.op = "Clear" /\ call.fail = 1 /\ elapsed = 0 /\ ~ret.err
    /\ Cardinality(Live(pre)) = MaxStr
    /\ ret.cmds = <<"FLUSHDB", "KEYS", "GET", "DEL">>
    /\ store = EmptyStore

\* The key a call on one key, or a Remove, is asked about: for Remove, the
\* last key given.
AskedKey ==
    IF call.op = "Remove" THEN call.keys[Len(call.keys)] ELSE call.key

\* C21: absence is never an error: when every remote command succeeds, Get,
\* Contains, GetExpire, Update, UpdateExpire and Remove applied to a key
\* that does not exist return a nil error and signal absence only through an
\* absent value, false, or the duration -1.
C21_AbsenceIsNoError ==
    (/\ call.op \in {"Get", "Contains", "GetExpire", "Update", "UpdateExpire", "Remove"}
     /\ call.fail = 0 /\ elapsed = 0
     /\ (call.op = "Remove" => Len(call.keys) > 0))
        => (~Exists(pre, AskedKey)
                => /\ ~ret.err
                   /\ call.op \in {"Get", "Remove"} => ret.val = Nil
                   /\ call.op = "Contains" => ~ret.ok
                   /\ call.op = "Update" => (ret.val = Nil /\ ~ret.ok)
                   /\ call.op \in {"GetExpire", "UpdateExpire"} => ret.dur = -1)

\* Reached: GetExpire has returned -1 for a key that does not exist.
C21_Witness ==
    /\ Returned("GetExpire")
    /\ ~Exists(pre, call.key)
    /\ ~ret.err /\ ret.dur = -1

\* The remote commands the call in hand has issued, in order.
RemoteCmds == SelectSeq(ret.cmds, LAMBDA c : c # "f()")

\* C22: no retry and fail-fast: for every operation other than Clear, each
\* remote command is issued at most once per call, and when a remote command
\* fails the operation issues no further remote command and returns the
\* error; in Update, a failed GET after an answered TTL means no DEL and no
\* write, and the store is as it was.
C22_FailFast ==
    (call.op \notin {"none", "Clear"} /\ elapsed = 0)
        => /\ (call.fail >= 1 /\ Len(RemoteCmds) >= call.fail)
                => (ret.err /\ Len(RemoteCmds) = call.fail)
           /\ call.op # "Sets"
                => \A i, j \in 1..Len(RemoteCmds) :
                        i # j => RemoteCmds[i] # RemoteCmds[j]
           /\ call.op = "Sets" => Len(RemoteCmds) <= Len(call.keys)
           /\ (call.op = "Update" /\ call.fail = 2 /\ Len(RemoteCmds) = 2)
                => store = pre

\* Reached: in Update on an existing key TTL was answered and GET failed.
C22_Witness ==
    /\ call.op = "Update" /\ call.fail = 2 /\ elapsed = 0
    /\ Exists(pre, call.key)
    /\ ret.cmds = <<"TTL", "GET">>
    /\ ret.err /\ store = pre

\* Caller p has made the existence check of SetIfNotExistFuncLock and has
\* its f or its write still to run.
InLockedSection(p) ==
    procs[p].op = "SetIfNotExistFuncLock" /\ procs[p].pc \in {"f", "SET"}

\* C23: SetIfNotExistFuncLock executes f within a writing mutex lock: for
\* concurrent SetIfNotExistFuncLock calls through the same adapter, no two
\* executions of f, with the existence check and the write around them,
\* overlap in time.
C23_FuncLockExcludes ==
    \A p, q \in Procs : (InLockedSection(p) /\ InLockedSection(q)) => p = q

\* C24: read-through never overwrites: GetOrSet(k, v, d) and
\* GetOrSetFunc(k, f, d) return the value of k and leave the store as it was,
\* f not invoked, when k exists; when k is absent and d >= 0 they store the
\* given or produced present value with duration d and return it, so that
\* Get(k) right afterwards returns the same; when f yields an absent value
\* nothing is stored and (absent, nil) is returned.
C24_GetOrSet ==
    (/\ call.op \in {"GetOrSet", "GetOrSetFunc"}
     /\ call.fail = 0 /\ elapsed = 0 /\ ~call.ferr)
        => /\ Exists(pre, call.key)
                => /\ ~ret.err /\ ret.val = pre[call.key].val
                   /\ store = pre /\ ~Invoked
           /\ (~Exists(pre, call.key) /\ call.dur >= 0 /\ call.value # Nil)
                => /\ ~ret.err /\ ret.val = call.value
                   /\ GetAfter(call.key) = ret.val
                   /\ store = Set(pre, call.key, call.value, call.dur, 0).store
           /\ (call.op = "GetOrSetFunc" /\ ~Exists(pre, call.key) /\ call.value = Nil)
                => (~ret.err /\ ret.val = Nil /\ store = pre)

\* Every caller has made the call op(k, ...) and is done with it.
AllDone(op, k) ==
    \A p \in Procs :
        procs[p].op = op /\ procs[p].key = k /\ procs[p].pc = "done"

\* C25: for concurrent SetIfNotExist(k, v_i, d) calls with present values
\* and d > 0 on the same initially absent key, with no other operation on k,
\* no remote failure and no expiry during the calls, exactly one call
\* returns true, all others return false, and the final value of k is the
\* value of the call that returned true.
C25_SetIfNotExistOneWinner ==
    \A k \in Str, d \in Durations :
        (/\ d > 0
         /\ AllDone("SetIfNotExist", k)
         /\ \A p \in Procs : procs[p].dur = d /\ procs[p].arg.v # Nil)
            => \E p \in Procs :
                    /\ procs[p].ok
                    /\ \A q \in Procs \ {p} : ~procs[q].ok
                    /\ store[k].val = procs[p].arg.v

\* Caller p is done with Update(k, v), v present.
UpdateDone(p, k) ==
    /\ procs[p].op = "Update" /\ procs[p].key = k /\ procs[p].pc = "done"
    /\ procs[p].arg.v # Nil

\* Caller q is done with Remove(k).
RemoveDone(q, k) ==
    procs[q].op = "Remove" /\ procs[q].key = k /\ procs[q].pc = "done"

\* C26 as claimed: Update never creates a key, also under interleaving:
\* for every interleaving of Update(k, v), v present, with a concurrent
\* Remove(k), and likewise when k expires between Update's TTL read and its
\* write, k is absent once both have completed.
C26_UpdateNeverCreates ==
    \A p, q \in Procs, k \in Str :
        (UpdateDone(p, k) /\ (RemoveDone(q, k) \/ (procs[q].pc = "idle" /\ procs[p].lost)))
            => ~Exists(store, k)

\* C26, amended: once Update(k, v) and Remove(k) have both completed, k is
\* absent unless Update's write ran after k was gone (removed, or expired,
\* after Update's TTL read) and after Remove's DEL; k then holds v.  A k that
\* exists after it expired between Update's TTL read and its write holds v.
C26_UpdateCreatesOnlyInWindow ==
    \A p, q \in Procs, k \in Str :
        /\ (UpdateDone(p, k) /\ RemoveDone(q, k) /\ Exists(store, k))
                => /\ procs[p].lost /\ ~procs[p].err
                   /\ procs[p].at > procs[q].at
                   /\ store[k].val = procs[p].arg.v
        /\ (UpdateDone(p, k) /\ procs[q].pc = "idle" /\ procs[p].lost
                /\ Exists(store, k))
                => (~procs[p].err /\ store[k].val = procs[p].arg.v)

\* Reached: Remove's DEL ran between Update's reads and its write, and the
\* key Remove deleted exists again.
C26_Witness ==
    \E p, q \in Procs, k \in Str :
        /\ UpdateDone(p, k) /\ RemoveDone(q, k)
        /\ procs[q].got # Nil
        /\ procs[p].lost /\ procs[p].at > procs[q].at
        /\ Exists(store, k)

\* Caller p is done with SetIfNotExistFunc on k, which it found absent, and
\* has written the value its producer made.
FuncWrote(p, k) ==
    /\ procs[p].op = "SetIfNotExistFunc" /\ procs[p].key = k
    /\ procs[p].pc = "done" /\ procs[p].got = Nil
    /\ procs[p].at > 0 /\ ~procs[p].err

\* C27: SetIfNotExistFunc is not single-flight.  When two concurrent calls
\* on the same absent key k have both read k absent, both producers have
\* been invoked and both calls return true; k ends as the call whose write
\* ran last leaves it: with that call's value, the first writer's being
\* overwritten (absent if that call's duration is negative).
C27_NotSingleFlight ==
    \A p, q \in Procs, k \in Str :
        (FuncWrote(p, k) /\ FuncWrote(q, k) /\ procs[p].at > procs[q].at)
            => /\ procs[p].ok /\ procs[q].ok
               /\ IF procs[p].dur < 0 THEN ~Exists(store, k)
                  ELSE Exists(store, k) /\ store[k].val = procs[p].arg.v

\* Reached: both producers were invoked, both calls returned true, and k
\* holds the value of the last writer, not the first writer's.
C27_Witness ==
    \E p, q \in Procs, k \in Str :
        /\ FuncWrote(p, k) /\ FuncWrote(q, k) /\ procs[p].at > procs[q].at
        /\ procs[p].ok /\ procs[q].ok
        /\ procs[p].arg.v # procs[q].arg.v
        /\ Exists(store, k) /\ store[k].val = procs[p].arg.v

\* Caller p is done with UpdateExpire(k, 0) and caller q with Set(k, v2, 0),
\* v2 present.
UpdateExpireAndSet(p, q, k) ==
    /\ procs[p].op = "UpdateExpire" /\ procs[p].key = k /\ procs[p].dur = 0
    /\ procs[p].pc = "done"
    /\ procs[q].op = "Set" /\ procs[q].key = k /\ procs[q].dur = 0
    /\ procs[q].pc = "done" /\ procs[q].arg.v # Nil

\* Set's write ran between UpdateExpire's value read and its rewrite.
SetInWindow(p, q) ==
    procs[p].seen < procs[q].at /\ procs[q].at < procs[p].at

\* C28: UpdateExpire(k, 0) can lose a concurrent update.  When another
\* caller's Set(k, v2, 0) runs between UpdateExpire's value read and its
\* rewrite, k ends with the value UpdateExpire read instead of v2; in every
\* other order of the two calls k ends with v2.
C28_UpdateExpireLosesSet ==
    \A p, q \in Procs, k \in Str :
        UpdateExpireAndSet(p, q, k)
            => /\ Exists(store, k)
               /\ store[k].val = IF SetInWindow(p, q) THEN Arg(procs[p].got)
                                 ELSE procs[q].arg.v

\* Reached: Set's value v2 is lost, k holds the stale value.
C28_Witness ==
    \E p, q \in Procs, k \in Str :
        /\ UpdateExpireAndSet(p, q, k) /\ SetInWindow(p, q)
        /\ procs[p].got # Nil
        /\ store[k].val = procs[p].got
        /\ store[k].val # procs[q].arg.v

\* SetIfNotExist has just returned, whether a remote command failed or not.
SetIfNotExistBack == call.op = "SetIfNotExist" /\ elapsed = 0

\* C29: SetIfNotExist(k, v, d) with d > 0 is not rolled back on a failed
\* expiry step: when SETNX has set k and the EXPIRE that follows fails, the
\* call returns (false, error) and k is stored with value v and no expiry;
\* and whenever the call returns false with a nil error, k has the value and
\* the TTL it had before the call.
C29_NoRollback ==
    (SetIfNotExistBack /\ call.dur > 0)
        => /\ (call.fail = 2 /\ ret.cmds = <<"SETNX", "EXPIRE">>)
                => /\ ~ret.ok /\ ret.err
                   /\ ~Exists(pre, call.key)
                   /\ store[call.key] = [val |-> call.value, rem |-> -1]
           /\ (~ret.ok /\ ~ret.err) => store[call.key] = pre[call.key]

\* Reached: EXPIRE failed after SETNX had set the key.
C29_Witness ==
    /\ SetIfNotExistBack /\ call.dur > 0
    /\ call.fail = 2 /\ ret.cmds = <<"SETNX", "EXPIRE">>
    /\ ret.err /\ Exists(store, call.key)

\* The keys Sets has written when it returns for a positive duration: every
\* key if no Set failed, else the keys before the one whose Set failed.  Each
\* Set issues one remote command.
SetsWritten ==
    IF ret.err THEN {call.keys[i] : i \in 1..(Len(ret.cmds) - 1)}
    ELSE Range(call.keys)

\* C30: Sets(entries, d) with d > 0 performs one Set per entry; if the Set
\* of some entry fails, Sets returns that error at once and issues no further
\* write: the entries before it are stored as Set stores them, with value
\* and TTL (deleted if the value is absent), and the remaining entries and
\* every other key are as they were before the call.
C30_SetsStopsAtFailure ==
    (call.op = "Sets" /\ elapsed = 0 /\ call.dur > 0)
        => /\ Len(ret.cmds) <= Len(call.keys)
           /\ ~ret.err => Len(ret.cmds) = Len(call.keys)
           /\ ret.err => Len(ret.cmds) >= 1
           /\ call.fail > 0 => (ret.err /\ Len(ret.cmds) <= call.fail)
           /\ \A k \in Str :
                IF k \in SetsWritten
                THEN /\ store[k] = Set(pre, k, call.data[k], call.dur, 0).store[k]
                     /\ IF call.data[k] = Nil THEN ~Exists(store, k)
                        ELSE /\ store[k].val = call.data[k]
                             /\ store[k].rem = (call.dur \div Second) * Second
                ELSE store[k] = pre[k]

\* Reached: the Set of the second entry failed; the first entry is stored
\* with its TTL and the second, which existed, is as it was.
C30_Witness ==
    /\ call.op = "Sets" /\ elapsed = 0 /\ call.dur > 0
    /\ Len(call.keys) = 2 /\ call.fail = 2 /\ ret.err
    /\ Len(ret.cmds) = 2
    /\ call.data[call.keys[1]] # Nil
    /\ store[call.keys[1]].val = call.data[call.keys[1]]
    /\ store[call.keys[1]] # pre[call.keys[1]]
    /\ Exists(pre, call.keys[2])
    /\ call.data[call.keys[2]] # Nil
    /\ pre[call.keys[2]].val # call.data[call.keys[2]]
    /\ store[call.keys[2]] = pre[call.keys[2]]

\* C31: Data() and Values() succeed in every reachable store state: with
\* every remote command they send answered as the server answers it, they
\* return a nil error, and on a store with no keys the empty mapping or
\* sequence, as Keys() and Size() do.
C31_DataValuesSucceed ==
    /\ (Returned("Data") \/ Returned("Values"))
        => /\ ~ret.err
           /\ Live(store) = {} => ret.list = <<>>
    /\ (Returned("Keys") /\ Live(store) = {}) => (~ret.err /\ ret.list = <<>>)
    /\ (Returned("Size") /\ Live(store) = {}) => (~ret.err /\ ret.val = 0)

\* C32: the old duration UpdateExpire(k, d) returns is, for every k and d,
\* the value GetExpire(k) would have returned right before the call: -1 for
\* an absent key, 0 for a key that never expires, the remaining time
\* otherwise.
C32_OldDurationAsGetExpire ==
    Returned("UpdateExpire")
        => /\ ~ret.err
           /\ ret.dur = GetExpireBefore(call.key)
           /\ ret.dur = -1 <=> ~Exists(pre, call.key)
           /\ ret.dur = 0 <=> (Exists(pre, call.key) /\ pre[call.key].rem = -1)

\* C33: read-only operations have no effect on the store: Get, GetExpire,
\* Contains, Keys, Values, Data, Size and Close issue no mutating remote
\* command, and the value and TTL of every key are the same after the call
\* as before it, whether the call succeeds or fails.
C33_ReadOnlyFrame ==
    (/\ call.op \in {"Get", "GetExpire", "Contains", "Keys", "Values", "Data",
                     "Size", "Close"}
     /\ elapsed = 0)
        => /\ \A i \in 1..Len(ret.cmds) :
                ret.cmds[i] \in {"GET", "TTL", "EXISTS", "KEYS", "MGET", "DBSIZE"}
           /\ \A k \in Str : store[k] = pre[k]
           /\ call.op = "Close" => (ret.cmds = <<>> /\ ~ret.err)

\* Reached: Get has returned the value of a key that expires, and the key
\* is as it was.
C33_Witness ==
    /\ call.op = "Get" /\ call.fail = 0 /\ elapsed = 0
    /\ ret.val # Nil /\ ~ret.err
    /\ pre[call.key].rem > 0
    /\ store[call.key] = pre[call.key]

====
